---------------------------- MODULE Spec2Model ----------------------------
(***************************************************************************)
(* The user-account backend of realworld-gotham: the persistence layer     *)
(* (src/src/conduit/users.rs: insert, find, find_by_email_password) and    *)
(* the three HTTP handlers over it (src/src/web/users.rs: register, login, *)
(* get_user).                                                              *)
(*                                                                         *)
(* A handler is a chain of futures.  Its suspension point is the database  *)
(* call, which Repo::run hands to the worker pool; every handler is        *)
(* therefore two steps: the part that runs when the request is dispatched  *)
(* (body decoding, or reading the verified token), and the database call   *)
(* with the continuation that builds the response.  Requests interleave    *)
(* between the two.                                                        *)
(***************************************************************************)
EXTENDS Integers, Sequences, FiniteSets, TLC

(* ------------------------------ bounds -------------------------------- *)

\* Requests the front end dispatches in one run (each runs once).
MaxRequests == 3

Emails == {"a@x.com", "b@x.com"}
Usernames == {"alice"}
Passwords == {"secret", "hunter2"}

(* --------------------------- basic values ----------------------------- *)

\* Option<T>: None, Some(x).
None == <<>>

Some(x) == <<x>>

\* Result<T, E>.
Ok(v) == [ok |-> TRUE, val |-> v]

Err(e) == [ok |-> FALSE, err |-> e]

\* hyper::StatusCode, the four the handlers use.
OK == 200

BAD_REQUEST == 400

UNAUTHORIZED == 401

INTERNAL_SERVER_ERROR == 500

\* A function restricted to a part of its domain.
Restrict(f, D) == [x \in D |-> f[x]]

(* ------------------------------ auth ---------------------------------- *)

\* crate::auth::encode_token: a signed credential ("header.claims.signature")
\* carrying the user id as its claim.
encode_token(id) == <<"jwt", id, "signed">>

\* Claims::user_id of a decoded token.
user_id(token) == token[2]

\* The upstream JWT middleware: it attaches the decoded claims to the request
\* only when the signature verifies, and answers 401 itself otherwise.
verify(auth) == auth /= None /\ auth[1][3] = "signed"

(* ------------------------- persistence layer -------------------------- *)

\* The unique index on users.email.
email_taken(rows, e) == \E r \in rows : r.email = e

\* insert with ON CONFLICT (email) DO UPDATE: the row of that email is
\* replaced.
insert_upsert(rows, seq, user) ==
    LET u == [id |-> seq, email |-> user.email, username |-> user.username,
              password |-> user.password, token |-> None]
    IN  [res |-> Ok(u), rows |-> {r \in rows : r.email /= user.email} \cup {u},
         seq |-> seq + 1]

\* insert into a table with no unique index on email.
insert_unchecked(rows, seq, user) ==
    LET u == [id |-> seq, email |-> user.email, username |-> user.username,
              password |-> user.password, token |-> None]
    IN  [res |-> Ok(u), rows |-> rows \cup {u}, seq |-> seq + 1]

\* insert: INSERT INTO users (email, username, password) VALUES (...)
\* RETURNING *.  The key comes from the table's sequence (nextval is drawn
\* before the unique index is checked, so a rejected insert uses one up);
\* the token column is not among the values and stays NULL.
\* Yields the result, the table and the sequence afterwards.
insert(rows, seq, user) ==
    IF email_taken(rows, user.email)
    THEN [res |-> Err("UniqueViolation"), rows |-> rows, seq |-> seq + 1]
    ELSE LET u == [id |-> seq, email |-> user.email, username |-> user.username,
                   password |-> user.password, token |-> None]
         IN  [res |-> Ok(u), rows |-> rows \cup {u}, seq |-> seq + 1]

\* find without its filter: users.first().
find_any(rows, id) ==
    IF rows = {} THEN Err("NotFound")
    ELSE Ok(CHOOSE r \in rows : \A o \in rows : r.id <= o.id)

\* find: users.find(user_id).first(): the row with that primary key.
find(rows, id) ==
    LET hit == {r \in rows : r.id = id}
    IN  IF hit = {} THEN Err("NotFound") ELSE Ok(CHOOSE r \in hit : TRUE)

\* find_by_email_password without the password filter.
find_by_email(rows, user_email, user_password) ==
    LET hit == {r \in rows : r.email = user_email}
    IN  IF hit = {} THEN Err("NotFound") ELSE Ok(CHOOSE r \in hit : TRUE)

\* find_by_email_password: the first row passing both equality filters.
find_by_email_password(rows, user_email, user_password) ==
    LET hit == {r \in rows : r.email = user_email /\ r.password = user_password}
    IN  IF hit = {} THEN Err("NotFound") ELSE Ok(CHOOSE r \in hit : TRUE)

\* Repo::run: the closure runs on a pooled connection; when the connection
\* fails the query's own result is never produced and the error is diesel's.
run(conn_ok, r) == IF conn_ok THEN r ELSE Err("ConnectionError")

(* --------------------------- request bodies --------------------------- *)

\* A request payload: the stream may break while it is buffered, the bytes
\* may not be UTF-8, and the text is a JSON document or is not.
\* A JSON object is a function from its keys.
UserFields == {"email", "username", "password"}

FullUsers == [email : Emails, username : Usernames, password : Passwords]

UserObjects == {Restrict(u, D) : u \in FullUsers, D \in SUBSET UserFields}

JsonDocs == {[user |-> o] : o \in UserObjects} \cup {[other |-> "x"]}

Bodies ==
    {[stream |-> "broken"], [stream |-> "ok", utf8 |-> FALSE],
     [stream |-> "ok", utf8 |-> TRUE, json |-> FALSE]}
    \cup {[stream |-> "ok", utf8 |-> TRUE, json |-> TRUE, doc |-> d] : d \in JsonDocs}

\* HandlerError and gotham's IntoHandlerError, which is implemented for every
\* std::error::Error (HandlerError is one): it wraps the error as the cause
\* of a new HandlerError whose status is 500.
into_handler_error(e) == [status |-> INTERNAL_SERVER_ERROR, cause |-> e]

with_status(h, s) == [h EXCEPT !.status = s]

bad_request(e) == with_status(into_handler_error(e), BAD_REQUEST)

\* serde's derived Deserialize: every field of the struct must be present;
\* unknown keys are ignored.
Shape(T) ==
    IF T = "Registration" THEN {"email", "username", "password"}
    ELSE {"email", "password"}

from_str(T, doc) ==
    IF "user" \in DOMAIN doc /\ Shape(T) \subseteq DOMAIN doc.user
    THEN Ok([user |-> Restrict(doc.user, Shape(T))])
    ELSE Err("serde_json::Error")

\* extract_json::<T>: buffer, decode as UTF-8, parse as T; each failure
\* becomes a bad_request.
extract_json(T, body) ==
    IF body.stream /= "ok" THEN Err(bad_request("hyper::Error"))
    ELSE IF ~body.utf8 THEN Err(bad_request("Utf8Error"))
    ELSE IF ~body.json THEN Err(bad_request("serde_json::Error"))
    ELSE LET p == from_str(T, body.doc)
         IN  IF p.ok THEN p ELSE Err(bad_request(p.err))

(* ----------------------------- responses ------------------------------ *)

\* serde_json::to_string of a User: the token key is there only when set.
UserJson(u) ==
    IF u.token = None
    THEN [id |-> u.id, email |-> u.email, username |-> u.username,
          password |-> u.password]
    ELSE [id |-> u.id, email |-> u.email, username |-> u.username,
          password |-> u.password, token |-> u.token[1]]

\* serde_json::to_string of a UserResponse { user }.
UserResponse(u) == [user |-> UserJson(u)]

create_response(status, body) == [status |-> status, body |-> Some(body)]

create_empty_response(status) == [status |-> status, body |-> None]

\* A handler future that ends in Err((state, e)): gotham answers with the
\* error's status and no body.
into_response(h) == create_empty_response(h.status)

\* register answering like login, with a token minted for the new user.
register_response_minting(result) ==
    IF result.ok
    THEN create_response(OK,
             UserJson([result.val EXCEPT !.token = Some(encode_token(result.val.id))]))
    ELSE into_response(into_handler_error(result.err))

\* register's continuation (.then) on the outcome of decoding and insert.
register_response(result) ==
    IF result.ok
    THEN create_response(OK, UserJson(result.val))
    ELSE into_response(into_handler_error(result.err))

\* login's mapping without the NotFound arm.
login_map_err_plain(e) == into_handler_error(e)

\* login's mapping of the lookup's error.
login_map_err(e) ==
    IF e = "NotFound"
    THEN with_status(into_handler_error(e), UNAUTHORIZED)
    ELSE into_handler_error(e)

\* login answering with the user as stored, no token set.
login_response_no_token(result) ==
    IF result.ok
    THEN create_response(OK, UserResponse(result.val))
    ELSE into_response(result.err)

\* login's continuation (.then).
login_response(result) ==
    IF result.ok
    THEN create_response(OK,
             UserResponse([result.val EXCEPT !.token = Some(encode_token(result.val.id))]))
    ELSE into_response(result.err)

\* get_user's continuation without the NotFound arm.
get_user_response_plain(result) ==
    IF result.ok THEN create_response(OK, UserResponse(result.val))
    ELSE into_response(into_handler_error(result.err))

\* get_user's continuation (.then).
get_user_response(result) ==
    IF result.ok THEN create_response(OK, UserResponse(result.val))
    ELSE IF result.err = "NotFound" THEN create_empty_response(UNAUTHORIZED)
    ELSE into_response(into_handler_error(result.err))

(* ------------------------------- state -------------------------------- *)

VARIABLES
    users,      \* the users table: a set of rows
    users_seq,  \* the next value of the table's id sequence
    reqs        \* the requests dispatched so far, in order of arrival

vars == <<users, users_seq, reqs>>

\* A request: which handler, where it is ("db": waiting for the worker pool;
\* "done": answered), the decoded input if there is one, the outcome of its
\* database call if it made one, and its response once answered.
Request(kind, pc, input, result, resp) ==
    [kind |-> kind, pc |-> pc, input |-> input, result |-> result, resp |-> resp]

Init ==
    /\ users = {}
    /\ users_seq = 1
    /\ reqs = <<>>

(* ------------------------------ register ------------------------------ *)

\* register, up to the insert: decode the body as a Registration.  When
\* decoding fails the and_then is skipped and the continuation answers.
register_extract(body) ==
    /\ Len(reqs) < MaxRequests
    /\ LET p == extract_json("Registration", body)
       IN  reqs' = Append(reqs,
               IF p.ok
               THEN Request("register", "db", Some(p.val.user), None, None)
               ELSE Request("register", "done", None, None,
                            Some(register_response(p))))
    /\ UNCHANGED <<users, users_seq>>

\* register, the insert on a worker and the continuation.
register_then(i, conn_ok) ==
    /\ reqs[i].kind = "register" /\ reqs[i].pc = "db"
    /\ LET q == insert(users, users_seq, reqs[i].input[1])
           r == run(conn_ok, q.res)
           result == IF r.ok THEN r ELSE Err(into_handler_error(r.err))
       IN  /\ users' = IF conn_ok THEN q.rows ELSE users
           /\ users_seq' = IF conn_ok THEN q.seq ELSE users_seq
           /\ reqs' = [reqs EXCEPT ![i].pc = "done", ![i].result = Some(r),
                                   ![i].resp = Some(register_response(result))]

(* ------------------------------- login -------------------------------- *)

login_extract(body) ==
    /\ Len(reqs) < MaxRequests
    /\ LET p == extract_json("AuthRequest", body)
       IN  reqs' = Append(reqs,
               IF p.ok
               THEN Request("login", "db", Some(p.val.user), None, None)
               ELSE Request("login", "done", None, None, Some(login_response(p))))
    /\ UNCHANGED <<users, users_seq>>

login_then(i, conn_ok) ==
    /\ reqs[i].kind = "login" /\ reqs[i].pc = "db"
    /\ LET user == reqs[i].input[1]
           r == run(conn_ok, find_by_email_password(users, user.email, user.password))
           result == IF r.ok THEN r ELSE Err(login_map_err(r.err))
       IN  reqs' = [reqs EXCEPT ![i].pc = "done", ![i].result = Some(r),
                                ![i].resp = Some(login_response(result))]
    /\ UNCHANGED <<users, users_seq>>

(* ------------------------------ get_user ------------------------------ *)

\* The credentials a client may present: none, or a token for any id, signed
\* with the server's secret or not.
Tokens == {<<"jwt", id, s>> : id \in 1..MaxRequests, s \in {"signed", "forged"}}

Auths == {None} \cup {Some(t) : t \in Tokens}

\* GET /api/user arrives: the middleware rejects it, or get_user starts and
\* hands find to the worker pool.
get_user_auth(auth) ==
    /\ Len(reqs) < MaxRequests
    /\ reqs' = Append(reqs,
           IF verify(auth)
           THEN Request("get_user", "db", Some([user_id |-> user_id(auth[1])]), None, None)
           ELSE Request("get_user", "done", None, None,
                        Some(create_empty_response(UNAUTHORIZED))))
    /\ UNCHANGED <<users, users_seq>>

get_user_then(i, conn_ok) ==
    /\ reqs[i].kind = "get_user" /\ reqs[i].pc = "db"
    /\ LET r == run(conn_ok, find(users, reqs[i].input[1].user_id))
       IN  reqs' = [reqs EXCEPT ![i].pc = "done", ![i].result = Some(r),
                                ![i].resp = Some(get_user_response(r))]
    /\ UNCHANGED <<users, users_seq>>

(* --------------------------- specification ---------------------------- *)

Next ==
    \/ \E body \in Bodies : register_extract(body)
    \/ \E i \in DOMAIN reqs, conn_ok \in BOOLEAN : register_then(i, conn_ok)
    \/ \E body \in Bodies : login_extract(body)
    \/ \E i \in DOMAIN reqs, conn_ok \in BOOLEAN : login_then(i, conn_ok)
    \/ \E auth \in Auths : get_user_auth(auth)
    \/ \E i \in DOMAIN reqs, conn_ok \in BOOLEAN : get_user_then(i, conn_ok)

Spec == Init /\ [][Next]_vars

(* ------------------------- reading the state -------------------------- *)

Done(rq) == rq.pc = "done"

\* The request's response and, when it made one, its database call's outcome.
Resp(rq) == rq.resp[1]

Result(rq) == rq.result[1]

\* This step is request i's database call and continuation.
DbStep(i) == i \in DOMAIN reqs /\ reqs[i].pc = "db" /\ reqs'[i].pc = "done"

\* The call's connection failed (diesel's error is not the query's own).
Faulted(r) == ~r.ok /\ r.err = "ConnectionError"

\* A response that carries a token: under user, or at the top of the body.
HasToken(resp) ==
    /\ resp.body /= None
    /\ \/ "token" \in DOMAIN resp.body[1]
       \/ "user" \in DOMAIN resp.body[1] /\ "token" \in DOMAIN resp.body[1].user

Matches(row, a) == row.email = a.email /\ row.password = a.password

(* ------------------------------- claims ------------------------------- *)

\* C1: once a register has answered 200, a login with the same email and
\* password whose lookup the store serves answers 200 with a body whose
\* user.token is a non-empty string, and the token's claim is the id of the
\* row that register created; whatever other requests ran in between.
C1_Step ==
    \A j \in DOMAIN reqs :
      (DbStep(j) /\ reqs[j].kind = "login" /\ ~Faulted(Result(reqs'[j]))) =>
        \A i \in DOMAIN reqs :
          (/\ reqs[i].kind = "register" /\ Done(reqs[i])
           /\ Resp(reqs[i]).status = OK
           /\ Matches(reqs[i].input[1], reqs[j].input[1])) =>
            LET resp == Resp(reqs'[j])
                row == Result(reqs[i]).val
            IN  /\ resp.status = OK
                /\ resp.body /= None
                /\ DOMAIN resp.body[1] = {"user"}
                /\ "token" \in DOMAIN resp.body[1].user
                /\ Len(resp.body[1].user.token) > 0
                /\ user_id(resp.body[1].user.token) = row.id
                /\ resp.body[1].user.id = row.id
                /\ row \in users

C1_RegisterThenLogin == [][C1_Step]_vars

\* C1's case: a register answered 200, another request came in between, and
\* a later login with the same credentials answered 200 with a token.
C1_Witness ==
    /\ Len(reqs) = 3
    /\ reqs[1].kind = "register" /\ Done(reqs[1]) /\ Resp(reqs[1]).status = OK
    /\ Done(reqs[2])
    /\ reqs[3].kind = "login" /\ Done(reqs[3]) /\ Resp(reqs[3]).status = OK
    /\ Matches(reqs[1].input[1], reqs[3].input[1])
    /\ HasToken(Resp(reqs[3]))

\* C2: a login answers 401 exactly when its lookup ran and found no row
\* matching both the email and the password (a body that does not decode is
\* 400, a lookup the connection fails is 500, neither is 401); with an email
\* no register has stored it never answers 200, answers 401 when the lookup
\* is served, and its response has no body, hence no token.
C2_Step ==
    \A j \in DOMAIN reqs :
      (DbStep(j) /\ reqs[j].kind = "login") =>
        LET a == reqs[j].input[1]
            match == \E row \in users : Matches(row, a)
            served == ~Faulted(Result(reqs'[j]))
            resp == Resp(reqs'[j])
        IN  /\ (resp.status = UNAUTHORIZED) <=> (served /\ ~match)
            /\ (resp.status = OK) <=> (served /\ match)
            /\ resp.status /= OK => ~HasToken(resp)
            /\ ~email_taken(users, a.email) =>
                 /\ resp.status /= OK
                 /\ resp.body = None
                 /\ served => resp.status = UNAUTHORIZED

C2_Undecoded ==
    \A j \in DOMAIN reqs :
      (reqs[j].kind = "login" /\ Done(reqs[j]) /\ reqs[j].input = None) =>
        Resp(reqs[j]).status \notin {UNAUTHORIZED, OK}

C2_LoginUnauthorized == [][C2_Step /\ C2_Undecoded']_vars

\* C2's case: a row is stored, and logins answered 401 both for an email that
\* was never registered and for the stored email with another password.
C2_Witness ==
    /\ users /= {}
    /\ \E j \in DOMAIN reqs :
         /\ reqs[j].kind = "login" /\ Done(reqs[j]) /\ reqs[j].input /= None
         /\ ~email_taken(users, reqs[j].input[1].email)
         /\ Resp(reqs[j]).status = UNAUTHORIZED
    /\ \E j \in DOMAIN reqs :
         /\ reqs[j].kind = "login" /\ Done(reqs[j]) /\ reqs[j].input /= None
         /\ email_taken(users, reqs[j].input[1].email)
         /\ Resp(reqs[j]).status = UNAUTHORIZED

\* C3: a successful insert returns a user whose id no row had before it, and
\* from then on find on that id succeeds with a user whose email, username
\* and password are the NewUser's.
C3_Fresh ==
    \A i \in DOMAIN reqs :
      (DbStep(i) /\ reqs[i].kind = "register" /\ Result(reqs'[i]).ok) =>
        /\ \A row \in users : row.id /= Result(reqs'[i]).val.id
        /\ Result(reqs'[i]).val \in users'

C3_Found ==
    \A i \in DOMAIN reqs :
      (reqs[i].kind = "register" /\ Done(reqs[i]) /\ reqs[i].result /= None
       /\ Result(reqs[i]).ok) =>
        LET new_user == reqs[i].input[1]
            f == find(users, Result(reqs[i]).val.id)
        IN  /\ f.ok
            /\ f.val.email = new_user.email
            /\ f.val.username = new_user.username
            /\ f.val.password = new_user.password

C3_InsertThenFind == [][C3_Fresh /\ C3_Found']_vars

\* C3's case: two inserts succeeded, the second after the first.
C3_Witness ==
    \E i, j \in DOMAIN reqs :
      /\ i /= j
      /\ reqs[i].kind = "register" /\ Done(reqs[i]) /\ reqs[i].result /= None
      /\ reqs[j].kind = "register" /\ Done(reqs[j]) /\ reqs[j].result /= None
      /\ Result(reqs[i]).ok /\ Result(reqs[j]).ok
      /\ Result(reqs[i]).val.id < Result(reqs[j]).val.id

\* C4: after a successful insert, find_by_email_password with the inserted
\* email and password succeeds with that same user (same id), and with that
\* email and any other password fails with NotFound.
C4_Authenticates ==
    \A i \in DOMAIN reqs :
      (reqs[i].kind = "register" /\ Done(reqs[i]) /\ reqs[i].result /= None
       /\ Result(reqs[i]).ok) =>
        LET u == Result(reqs[i]).val
            f == find_by_email_password(users, u.email, u.password)
        IN  /\ f.ok
            /\ f.val.id = u.id
            /\ f.val = u
            /\ \A p \in Passwords \ {u.password} :
                 find_by_email_password(users, u.email, p) = Err("NotFound")

\* C4's case: a user was inserted, and later requests (among them a register
\* of the same email with another password) have run.
C4_Witness ==
    \E i, j \in DOMAIN reqs :
      /\ reqs[i].kind = "register" /\ Done(reqs[i]) /\ reqs[i].result /= None
      /\ Result(reqs[i]).ok
      /\ reqs[j].kind = "register" /\ Done(reqs[j]) /\ reqs[j].result /= None
      /\ ~Result(reqs[j]).ok
      /\ reqs[j].input[1].email = reqs[i].input[1].email
      /\ reqs[j].input[1].password /= reqs[i].input[1].password

\* C5: a register or login whose body fails buffering, UTF-8 decoding or
\* JSON-shape validation answers 400 and makes no persistence call.
C5_BadBodyIs400 ==
    \A i \in DOMAIN reqs :
      (reqs[i].kind \in {"register", "login"} /\ Done(reqs[i])
       /\ reqs[i].input = None) =>
        /\ Resp(reqs[i]).status = BAD_REQUEST
        /\ reqs[i].result = None

\* C6: get-current-user never answers 200 without a valid token: without one
\* the request is answered upstream and the handler's find never runs; with
\* one it answers 200 exactly when find on the claim's user id succeeds, 401
\* with an empty body when no row has that id, and 500 on any other storage
\* error.
C6_Answer ==
    \A i \in DOMAIN reqs :
      (reqs[i].kind = "get_user" /\ Done(reqs[i])) =>
        LET resp == Resp(reqs[i])
        IN  IF reqs[i].input = None
            THEN resp.status /= OK /\ reqs[i].result = None
            ELSE LET r == Result(reqs[i])
                 IN  /\ (resp.status = OK) <=> r.ok
                     /\ r.ok => /\ r.val.id = reqs[i].input[1].user_id
                                /\ r.val \in users
                                /\ resp.body /= None
                                /\ resp.body[1].user.id = r.val.id
                     /\ (~r.ok /\ r.err = "NotFound") =>
                          resp = [status |-> UNAUTHORIZED, body |-> None]
                     /\ (~r.ok /\ r.err /= "NotFound") =>
                          resp.status = INTERNAL_SERVER_ERROR

C6_Step ==
    \A i \in DOMAIN reqs :
      (DbStep(i) /\ reqs[i].kind = "get_user") =>
        LET known == \E row \in users : row.id = reqs[i].input[1].user_id
            r == Result(reqs'[i])
        IN  /\ r.ok <=> (known /\ ~Faulted(r))
            /\ (~known /\ ~Faulted(r)) => r = Err("NotFound")

C6_GetUser == [][C6_Step /\ C6_Answer']_vars

\* C6's case: a valid token for a stored user was answered 200, and a valid
\* token whose claim names no stored row was answered 401.
C6_Witness ==
    /\ \E i \in DOMAIN reqs :
         /\ reqs[i].kind = "get_user" /\ Done(reqs[i]) /\ reqs[i].input /= None
         /\ Resp(reqs[i]).status = OK
    /\ \E i \in DOMAIN reqs :
         /\ reqs[i].kind = "get_user" /\ Done(reqs[i]) /\ reqs[i].input /= None
         /\ Resp(reqs[i]) = [status |-> UNAUTHORIZED, body |-> None]
         /\ Result(reqs[i]) = Err("NotFound")

\* C7: a successful register answers 200 with a body { user: <User> }: the
\* stored user's fields under a top-level "user" key, with no token field.
C7_RegisterBody ==
    \A i \in DOMAIN reqs :
      (reqs[i].kind = "register" /\ Done(reqs[i]) /\ reqs[i].result /= None
       /\ Result(reqs[i]).ok) =>
        LET resp == Resp(reqs[i])
        IN  /\ resp.status = OK
            /\ resp.body /= None
            /\ DOMAIN resp.body[1] = {"user"}
            /\ DOMAIN resp.body[1].user = {"id", "email", "username", "password"}

\* C8: a token is issued only by login: a response carries a token only if it
\* is the 200 of a login whose credentials matched a stored row; register and
\* get-current-user responses and every non-200 response carry none, and no
\* stored row holds a token.
C8_TokenOnlyFromLogin ==
    /\ \A i \in DOMAIN reqs :
         (Done(reqs[i]) /\ HasToken(Resp(reqs[i]))) =>
           /\ reqs[i].kind = "login"
           /\ Resp(reqs[i]).status = OK
           /\ reqs[i].result /= None /\ Result(reqs[i]).ok
           /\ Matches(Result(reqs[i]).val, reqs[i].input[1])
           /\ Result(reqs[i]).val \in users
    /\ \A row \in users : row.token = None

\* C8's case: a register, a login and a get-current-user all answered 200.
C8_Witness ==
    /\ \A k \in {"register", "login", "get_user"} :
         \E i \in DOMAIN reqs :
           reqs[i].kind = k /\ Done(reqs[i]) /\ Resp(reqs[i]).status = OK
    /\ \E i \in DOMAIN reqs : Done(reqs[i]) /\ HasToken(Resp(reqs[i]))

\* C9: the users table is append-only: every step keeps every row as it is;
\* only a successful insert changes the table, by adding its one row; find,
\* find_by_email_password and every failed operation leave it unchanged, so
\* find on a stored id returns the same data after any step.
C9_Step ==
    /\ users \subseteq users'
    /\ \A row \in users : find(users, row.id) = Ok(row) /\ find(users', row.id) = Ok(row)
    /\ \A i \in DOMAIN reqs :
         DbStep(i) =>
           IF reqs[i].kind = "register" /\ Result(reqs'[i]).ok
           THEN users' = users \cup {Result(reqs'[i]).val}
           ELSE users' = users
    /\ (\A i \in DOMAIN reqs : ~DbStep(i)) => users' = users

C9_AppendOnly == [][C9_Step]_vars

\* C9's case: with a row stored, a find on it, a lookup by credentials and a
\* rejected insert have all run.
C9_Witness ==
    /\ users /= {}
    /\ \E i \in DOMAIN reqs :
         reqs[i].kind = "get_user" /\ Done(reqs[i]) /\ Resp(reqs[i]).status = OK
    /\ \E i \in DOMAIN reqs :
         /\ reqs[i].kind \in {"login", "register"} /\ Done(reqs[i])
         /\ reqs[i].result /= None /\ ~Result(reqs[i]).ok

\* C10: under any interleaving no two rows share an email or an id; of the
\* register requests for one email at most one inserts a row and answers
\* 200, and every other one that reaches the store fails with a storage
\* error answered as 500, adds no row, and is not run again.
C10_State ==
    /\ \A r1, r2 \in users : (r1.email = r2.email \/ r1.id = r2.id) => r1 = r2
    /\ \A i, j \in DOMAIN reqs :
         (/\ i /= j
          /\ reqs[i].kind = "register" /\ reqs[j].kind = "register"
          /\ Done(reqs[i]) /\ Done(reqs[j])
          /\ reqs[i].input /= None /\ reqs[j].input /= None
          /\ reqs[i].input[1].email = reqs[j].input[1].email) =>
            /\ ~(Resp(reqs[i]).status = OK /\ Resp(reqs[j]).status = OK)
            /\ Resp(reqs[i]).status = OK =>
                 /\ ~Result(reqs[j]).ok
                 /\ Resp(reqs[j]) = [status |-> INTERNAL_SERVER_ERROR, body |-> None]

C10_Step ==
    \A i \in DOMAIN reqs :
      /\ (DbStep(i) /\ reqs[i].kind = "register" /\ ~Result(reqs'[i]).ok) =>
           users' = users
      /\ Done(reqs[i]) => reqs'[i] = reqs[i]

C10_EmailUnique == [][C10_Step /\ C10_State']_vars

\* C10's case: two registers of one email were in flight together; the one
\* that arrived later inserted first and answered 200, the earlier one then
\* hit the unique index and answered 500.
C10_Witness ==
    \E i, j \in DOMAIN reqs :
      /\ i < j
      /\ reqs[i].kind = "register" /\ reqs[j].kind = "register"
      /\ Done(reqs[i]) /\ Done(reqs[j])
      /\ reqs[i].input /= None /\ reqs[j].input /= None
      /\ reqs[i].input[1].email = reqs[j].input[1].email
      /\ Resp(reqs[j]).status = OK
      /\ Result(reqs[i]) = Err("UniqueViolation")
      /\ Resp(reqs[i]).status = INTERNAL_SERVER_ERROR
      /\ Cardinality(users) = 1

=============================================================================
